---- MODULE Spec2Model ----
(***************************************************************************)
(* Model of nameko's message consumption engine.                           *)
(*                                                                         *)
(*   QueueConsumer / ConsumeProvider   src/nameko/messaging.py             *)
(*   Service (legacy RPC service loop) src/nameko/service.py               *)
(*                                                                         *)
(* Both run on eventlet: every greenlet runs without interruption between  *)
(* two yield points (eventlet.sleep, Event.wait, GreenThread.wait, a       *)
(* blocking broker call).  Each action below is one such run of one        *)
(* greenlet, from the point it is resumed to the point where it yields.    *)
(***************************************************************************)
EXTENDS Integers, Sequences, FiniteSets, TLC

\* ------------------------------------------------------------------ bounds
MaxMsgs == 1
MaxSoloMsgs == 3
NumCallers == 2
MaxSvcMsgs == 3
NumValues == 2
PoolSize == 1

\* ------------------------------------------------------- program constants
\* QueueConsumer._prefetch_count (container.max_workers): the broker holds at
\* most this many undispositioned messages per consumer.
PrefetchCount == 2

Providers == {"p1", "p2"}
Callers == 1..NumCallers
MsgIds == IF MaxMsgs > MaxSoloMsgs THEN MaxMsgs ELSE MaxSoloMsgs
Msgs == 1..MsgIds
SvcMsgs == 1..MaxSvcMsgs
NoCaller == 0
NoProvider == "none"

\* ConsumeProvider.requeue_on_error, fixed at construction of each provider
RequeueOnError == [p \in Providers |-> p = "p1"]

\* the consumers of Service.get_consumers: the nova consumer of the three RPC
\* queues and the consumers of the controller's consume-subscriptions
SvcKinds == {"rpc", "consume"}

\* HEADER_PREFIX, as the sequence of its characters
HEADER_PREFIX == <<"n", "a", "m", "e", "k", "o">>

\* context keys and context values the headers are tried with; a key is the
\* sequence of its characters
ContextKeys == {<<"a">>, <<"b">>, <<"a", ".", "b">>}
ContextValues == 1..NumValues

\* reasons a greenlet can be killed with
KillReasons == {"QueueConsumerStopped", "other"}

VARIABLES
    \* ---- QueueConsumer
    providers,        \* SharedDependency._providers
    consumers,        \* keys of QueueConsumer._consumers
    pendingMessages,  \* QueueConsumer._pending_messages
    pendingAck,       \* QueueConsumer._pending_ack_messages
    pendingRequeue,   \* QueueConsumer._pending_requeue_messages
    pendingRemove,    \* QueueConsumer._pending_remove_providers
    removedSent,      \* callers whose removed_event has been sent
    starting,         \* QueueConsumer._starting
    consumersReady,   \* QueueConsumer._consumers_ready
    shouldStop,       \* ConsumerMixin.should_stop
    gt,               \* QueueConsumer._gt: position of the poll greenlet
    gtExc,            \* the exception the poll greenlet died with
    spawnCount,       \* number of eventlet.spawn(self.run) calls
    \* ---- callers of the QueueConsumer API
    callerPc,         \* where each caller is blocked, or "idle"
    callerArg,        \* the provider a blocked unregister_provider is for
    lastOut,          \* how the API call that returned last ended
    \* ---- messages and workers
    delivered,        \* number of messages handed to _on_message
    msgProv,          \* provider whose consumer received the message
    handler,          \* state of the message's worker
    acked, requeued,  \* number of msg.ack() / msg.requeue() calls
    \* ---- Service
    svcGt,            \* Service.greenlet: position of the service's poll loop
    svcConsumers,     \* Service._consumers is set (on_consume_ready ran)
    svcCancelled,     \* the service's consumers are cancelled at the broker
    svcPending,       \* Service._pending_messages
    svcStopAfterAck,  \* Service._should_stop_after_ack
    svcShouldStop,    \* ConsumerMixin.should_stop of the service
    svcDelivered,     \* number of messages handed to on_nova_message
    svcHandler,       \* state of the message's worker in the procpool
    svcKind,          \* the consumer a message came through
    svcAcked,         \* number of msg.ack() calls
    svcKillPc,        \* position of the caller of Service.kill
    \* ---- broker calls, with the execution context that issued them
    calls,
    \* ---- context headers of one published message
    ctxData,          \* worker_ctx.data of the publishing worker
    encKeys,          \* worker_ctx.data_keys of the publishing worker
    decKeys,          \* worker_ctx_cls.data_keys of the consuming container
    msgHeaders,       \* message.headers
    decoded,          \* the mapping unpack_message_headers returns
    codecPc           \* "idle", "publish", "sent" or "unpacked"

qcVars == <<providers, consumers, pendingMessages, pendingAck, pendingRequeue,
            pendingRemove, removedSent, starting, consumersReady, shouldStop,
            gt, gtExc, spawnCount, callerPc, callerArg, lastOut,
            delivered, msgProv, handler, acked, requeued>>

svcVars == <<svcGt, svcConsumers, svcCancelled, svcPending, svcStopAfterAck,
             svcShouldStop, svcDelivered, svcHandler, svcKind, svcAcked,
             svcKillPc>>

codecVars == <<ctxData, encKeys, decKeys, msgHeaders, decoded, codecPc>>

vars == <<qcVars, svcVars, codecVars, calls>>

\* ------------------------------------------------------------ construction
\* QueueConsumer.__init__ (and SharedDependency.__init__ for providers)
QCInit ==
    /\ providers = {}
    /\ consumers = {}
    /\ pendingMessages = {}
    /\ pendingAck = <<>>
    /\ pendingRequeue = <<>>
    /\ pendingRemove = [p \in Providers |-> NoCaller]
    /\ removedSent = {}
    /\ starting = FALSE
    /\ consumersReady = "unset"
    /\ shouldStop = FALSE
    /\ gt = "none"
    /\ gtExc = "none"
    /\ spawnCount = 0
    /\ callerPc = [c \in Callers |-> "idle"]
    /\ callerArg = [c \in Callers |-> NoProvider]
    /\ lastOut = "none"
    /\ delivered = 0
    /\ msgProv = [m \in Msgs |-> NoProvider]
    /\ handler = [m \in Msgs |-> "none"]
    /\ acked = [m \in Msgs |-> 0]
    /\ requeued = [m \in Msgs |-> 0]

\* ----------------------------------------------------------------- helpers
\* greenlet.dead: the greenlet has finished, was killed or raised
Dead(g) == g \in {"exited", "killed", "failed"}

ButLast(s) == SubSeq(s, 1, Len(s) - 1)
Last(s) == s[Len(s)]

\* GreenThread.wait() on a dead greenlet re-raises what it died with;
\* last_provider_unregistered swallows QueueConsumerStopped only.
WaitOutcome(exc) ==
    IF exc \in {"none", "QueueConsumerStopped"} THEN "returned" ELSE "raised"

\* messages the broker has delivered on p's consumer and that are neither
\* acked nor requeued yet (what prefetch_count limits)
Unacked(p) ==
    {m \in Msgs : m <= delivered /\ msgProv[m] = p
                  /\ acked[m] + requeued[m] = 0}

\* ------------------------------------------------- the poll loop, by parts
\* QueueConsumer.on_iteration, after the two helpers: the stop decision,
\* and consume()'s `if self.should_stop: break`.
StopCheck(cons, pend) ==
    IF Cardinality(cons) + Cardinality(pend) = 0
    THEN shouldStop' = TRUE /\ gt' = "exited"
    ELSE shouldStop' = shouldStop /\ gt' = "drain"

\* _process_pending_message_acks, second loop: pops one message, requeues
\* it and yields in eventlet.sleep(); with the list empty, goes on to the
\* stop decision.
ProcessRequeues(cons, pend, c0) ==
    IF pendingRequeue # <<>>
    THEN /\ pendingRequeue' = ButLast(pendingRequeue)
         /\ requeued' = [requeued EXCEPT ![Last(pendingRequeue)] = @ + 1]
         /\ calls' = c0 \cup {<<"requeue", "poll">>}
         /\ gt' = "requeue_sleep"
         /\ shouldStop' = shouldStop
    ELSE /\ UNCHANGED <<pendingRequeue, requeued>>
         /\ calls' = c0
         /\ StopCheck(cons, pend)

\* _process_pending_message_acks, first loop: pops one message, acks it and
\* yields in eventlet.sleep(); with the list empty, goes on to the requeues.
ProcessAcks(cons, pend, c0) ==
    IF pendingAck # <<>>
    THEN /\ pendingAck' = ButLast(pendingAck)
         /\ acked' = [acked EXCEPT ![Last(pendingAck)] = @ + 1]
         /\ calls' = c0 \cup {<<"ack", "poll">>}
         /\ gt' = "ack_sleep"
         /\ UNCHANGED <<pendingRequeue, requeued, shouldStop>>
    ELSE /\ UNCHANGED <<pendingAck, acked>>
         /\ ProcessRequeues(cons, pend, c0)

\* providers with an entry in _pending_remove_providers
RemoveRequested == {p \in Providers : pendingRemove[p] # NoCaller}

\* on_iteration from its first line up to the first yield:
\* _cancel_consumers_if_requested, then _process_pending_message_acks.
\* self._consumers.pop(provider) raises KeyError for a provider without a
\* consumer; the providers that the loop visited before it (any subset of
\* the others, the dict order being arbitrary) have been cancelled.
OnIteration(pend, c0) ==
    LET req == RemoveRequested IN
    /\ pendingRemove' = [p \in Providers |-> NoCaller]
    /\ IF req \subseteq consumers
       THEN /\ consumers' = consumers \ req
            /\ removedSent' = removedSent \cup {pendingRemove[p] : p \in req}
            /\ gtExc' = gtExc
            /\ ProcessAcks(consumers \ req, pend,
                           IF req = {} THEN c0
                           ELSE c0 \cup {<<"cancel", "poll">>})
       ELSE \E done \in SUBSET (req \cap consumers) :
            /\ consumers' = consumers \ done
            /\ removedSent' = removedSent \cup {pendingRemove[p] : p \in done}
            /\ calls' = IF done = {} THEN c0
                        ELSE c0 \cup {<<"cancel", "poll">>}
            /\ gt' = "failed"
            /\ gtExc' = "KeyError"
            /\ UNCHANGED <<pendingAck, pendingRequeue, acked, requeued,
                           shouldStop>>

\* ------------------------------------------------- the poll greenlet steps
\* ConsumerMixin.run -> consume -> self.Consumer(): the greenlet spawned by
\* start() connects and get_consumers creates one consumer per provider
\* registered at that moment; the broker round trips that subscribe them
\* yield.  With no provider there is nothing to subscribe, and
\* on_consume_ready and the first on_iteration follow at once.
PollGetConsumers ==
    /\ gt = "spawned"
    /\ IF providers = {}
       THEN /\ consumersReady' = "ok"
            /\ OnIteration(pendingMessages, calls)
       ELSE /\ consumers' = providers
            /\ calls' = calls \cup {<<"subscribe", "poll">>}
            /\ gt' = "subscribed"
            /\ UNCHANGED <<pendingAck, pendingRequeue, pendingRemove,
                           removedSent, consumersReady, shouldStop, gtExc,
                           acked, requeued>>
    /\ UNCHANGED <<providers, pendingMessages, starting, spawnCount,
                   callerPc, callerArg, lastOut, delivered, msgProv,
                   handler>>
    /\ UNCHANGED <<svcVars, codecVars>>

\* consume(), `with self.Consumer() as ccc`: connecting to the broker or
\* subscribing raises a connection error before on_consume_ready has run;
\* nothing in consume() handles it and the greenlet ends with it.
PollConnectError ==
    /\ gt \in {"spawned", "subscribed"}
    /\ gt' = "failed"
    /\ gtExc' = "socket.error"
    /\ UNCHANGED <<providers, consumers, pendingMessages, pendingAck,
                   pendingRequeue, pendingRemove, removedSent, starting,
                   consumersReady, shouldStop, spawnCount, callerPc,
                   callerArg, lastOut, delivered, msgProv, handler, acked,
                   requeued, calls>>
    /\ UNCHANGED <<svcVars, codecVars>>

\* consume(): on_consume_ready sends the ready event, and the first
\* on_iteration follows without a yield.
PollConsumeReady ==
    /\ gt = "subscribed"
    /\ consumersReady' = "ok"
    /\ OnIteration(pendingMessages, calls)
    /\ UNCHANGED <<providers, pendingMessages, starting, spawnCount,
                   callerPc, callerArg, lastOut, delivered, msgProv,
                   handler>>
    /\ UNCHANGED <<svcVars, codecVars>>

\* the greenlet resumes from eventlet.sleep() in the ack loop
PollAfterAckSleep ==
    /\ gt = "ack_sleep"
    /\ ProcessAcks(consumers, pendingMessages, calls)
    /\ UNCHANGED <<providers, consumers, pendingMessages, pendingRemove,
                   removedSent, starting, consumersReady, gtExc, spawnCount,
                   callerPc, callerArg, lastOut, delivered, msgProv,
                   handler>>
    /\ UNCHANGED <<svcVars, codecVars>>

\* the greenlet resumes from eventlet.sleep() in the requeue loop; the ack
\* list is not looked at again in this iteration
PollAfterRequeueSleep ==
    /\ gt = "requeue_sleep"
    /\ ProcessRequeues(consumers, pendingMessages, calls)
    /\ UNCHANGED <<providers, consumers, pendingMessages, pendingAck, acked,
                   pendingRemove, removedSent, starting, consumersReady,
                   gtExc, spawnCount, callerPc, callerArg, lastOut,
                   delivered, msgProv, handler>>
    /\ UNCHANGED <<svcVars, codecVars>>

\* consume(), `if timeout and elapsed >= timeout`: run() calls consume()
\* without a timeout, so the test is false however long the wait has been
DeadlineExceeded == FALSE

\* connection.drain_events raises socket.timeout: no deadline is configured
\* (timeout=None), so the loop goes on to the next on_iteration
PollDrainTimeout ==
    /\ gt = "drain"
    /\ IF DeadlineExceeded
       THEN /\ gt' = "failed"
            /\ gtExc' = "socket.timeout"
            /\ UNCHANGED <<consumers, pendingAck, pendingRequeue,
                           pendingRemove, removedSent, shouldStop, acked,
                           requeued, calls>>
       ELSE OnIteration(pendingMessages, calls)
    /\ UNCHANGED <<providers, pendingMessages, starting, consumersReady,
                   spawnCount, callerPc, callerArg, lastOut, delivered,
                   msgProv, handler>>
    /\ UNCHANGED <<svcVars, codecVars>>

\* drain_events delivers one message of provider p's consumer: _on_message
\* adds it to _pending_messages and handle_message spawns its worker; then
\* the generator yields to run(), which calls the next on_iteration.
\* (limit: the number of messages the broker has for this run)
PollDrainMessage(p, limit) ==
    /\ gt = "drain"
    /\ p \in consumers
    /\ delivered < limit
    /\ Cardinality(Unacked(p)) < PrefetchCount
    /\ LET m == delivered + 1 IN
       /\ delivered' = m
       /\ msgProv' = [msgProv EXCEPT ![m] = p]
       /\ handler' = [handler EXCEPT ![m] = "running"]
       /\ pendingMessages' = pendingMessages \cup {m}
       /\ OnIteration(pendingMessages \cup {m}, calls)
    /\ UNCHANGED <<providers, starting, consumersReady, spawnCount,
                   callerPc, callerArg, lastOut>>
    /\ UNCHANGED <<svcVars, codecVars>>

\* drain_events raises a socket.error that is not a timeout while
\* should_stop is false: consume() re-raises it
PollDrainError ==
    /\ gt = "drain"
    /\ ~shouldStop
    /\ gt' = "failed"
    /\ gtExc' = "socket.error"
    /\ UNCHANGED <<providers, consumers, pendingMessages, pendingAck,
                   pendingRequeue, pendingRemove, removedSent, starting,
                   consumersReady, shouldStop, spawnCount, callerPc,
                   callerArg, lastOut, delivered, msgProv, handler, acked,
                   requeued, calls>>
    /\ UNCHANGED <<svcVars, codecVars>>

\* ------------------------------------------------------------- the workers
\* ack_message that forgets to take the message out of the in-flight set
AckMessage_KeepsPending(m) ==
    /\ pendingMessages' = pendingMessages
    /\ pendingAck' = Append(pendingAck, m)
    /\ UNCHANGED pendingRequeue

\* QueueConsumer.ack_message
AckMessage(m) ==
    /\ pendingMessages' = pendingMessages \ {m}
    /\ pendingAck' = Append(pendingAck, m)
    /\ UNCHANGED pendingRequeue

\* QueueConsumer.requeue_message
RequeueMessage(m) ==
    /\ pendingMessages' = pendingMessages \ {m}
    /\ pendingRequeue' = Append(pendingRequeue, m)
    /\ UNCHANGED pendingAck

\* handle_message_processed that requeues every failure, whatever the flag
HandleMessageProcessed_IgnoresFlag(m, failed) ==
    IF failed
    THEN RequeueMessage(m)
    ELSE AckMessage(m)

\* ConsumeProvider.handle_message_processed
HandleMessageProcessed(m, failed) ==
    IF failed /\ RequeueOnError[msgProv[m]]
    THEN RequeueMessage(m)
    ELSE AckMessage(m)

\* the worker of message m finishes (failed: the handler raised) and calls
\* handle_result in its own greenlet
WorkerDone(m, failed) ==
    /\ handler[m] = "running"
    /\ handler' = [handler EXCEPT ![m] = IF failed THEN "failed" ELSE "ok"]
    /\ HandleMessageProcessed(m, failed)
    /\ UNCHANGED <<providers, consumers, pendingRemove, removedSent,
                   starting, consumersReady, shouldStop, gt, gtExc,
                   spawnCount, callerPc, callerArg, lastOut, delivered,
                   msgProv, acked, requeued, calls>>
    /\ UNCHANGED <<svcVars, codecVars>>

\* ------------------------------------------------ calls of the public API
Return(c, out) ==
    /\ callerPc' = [callerPc EXCEPT ![c] = "idle"]
    /\ lastOut' = out

Block(c, at) ==
    /\ callerPc' = [callerPc EXCEPT ![c] = at]
    /\ UNCHANGED lastOut

\* SharedDependency.register_provider (ConsumeProvider.prepare): adds to the
\* active set; an already registered provider is refused
RegisterProvider(p) ==
    /\ p \notin providers
    /\ providers' = providers \cup {p}
    /\ UNCHANGED <<consumers, pendingMessages, pendingAck, pendingRequeue,
                   pendingRemove, removedSent, starting, consumersReady,
                   shouldStop, gt, gtExc, spawnCount, callerPc, callerArg,
                   lastOut, delivered, msgProv, handler, acked, requeued,
                   calls>>
    /\ UNCHANGED <<svcVars, codecVars>>

\* the outcome start() reports once _consumers_ready is triggered: wait()
\* returns, or raises the QueueConsumerStopped that start() swallows
ReadyOutcome(ev) == IF ev = "ok" THEN "started" ELSE "stopped"

\* start() without its _starting guard
StartSpawns_Always == TRUE

\* a start() that spawns the poll task again when the last one is dead
StartSpawns_WhenDead == ~starting \/ Dead(gt)

\* QueueConsumer.start, `if not self._starting`: does this call spawn?
StartSpawns == ~starting

\* QueueConsumer.start, up to self._consumers_ready.wait()
Start(c) ==
    /\ callerPc[c] = "idle"
    /\ IF StartSpawns
       THEN /\ starting' = TRUE
            /\ gt' = "spawned"
            /\ gtExc' = "none"
            /\ spawnCount' = spawnCount + 1
       ELSE UNCHANGED <<starting, gt, gtExc, spawnCount>>
    /\ IF consumersReady = "unset"
       THEN Block(c, "start_wait")
       ELSE Return(c, ReadyOutcome(consumersReady))
    /\ UNCHANGED <<providers, consumers, pendingMessages, pendingAck,
                   pendingRequeue, pendingRemove, removedSent,
                   consumersReady, shouldStop, callerArg, delivered, msgProv,
                   handler, acked, requeued, calls>>
    /\ UNCHANGED <<svcVars, codecVars>>

\* QueueConsumer.start, resumed from self._consumers_ready.wait()
StartReturn(c) ==
    /\ callerPc[c] = "start_wait"
    /\ consumersReady # "unset"
    /\ Return(c, ReadyOutcome(consumersReady))
    /\ UNCHANGED <<providers, consumers, pendingMessages, pendingAck,
                   pendingRequeue, pendingRemove, removedSent, starting,
                   consumersReady, shouldStop, gt, gtExc, spawnCount,
                   callerArg, delivered, msgProv, handler, acked, requeued,
                   calls>>
    /\ UNCHANGED <<svcVars, codecVars>>

\* QueueConsumer.kill (ConsumeProvider.kill): self._gt is None until start()
\* has spawned the greenlet, and `self._gt.dead` then raises AttributeError
Kill(c, exc) ==
    /\ callerPc[c] = "idle"
    /\ IF gt = "none"
       THEN /\ Return(c, "AttributeError")
            /\ UNCHANGED <<gt, gtExc>>
       ELSE /\ Return(c, "returned")
            /\ IF Dead(gt)
               THEN UNCHANGED <<gt, gtExc>>
               ELSE gt' = "killed" /\ gtExc' = exc
    /\ UNCHANGED <<providers, consumers, pendingMessages, pendingAck,
                   pendingRequeue, pendingRemove, removedSent, starting,
                   consumersReady, shouldStop, spawnCount, callerArg,
                   delivered, msgProv, handler, acked, requeued, calls>>
    /\ UNCHANGED <<svcVars, codecVars>>

\* QueueConsumer.unregister_provider while _consumers_ready is not
\* triggered: last_provider_unregistered kills the greenlet, sends the
\* exception to the waiters of start() and waits for the (dead) greenlet.
UnregisterBeforeReady(c) ==
    IF gt = "none"
    THEN /\ Return(c, "AttributeError")
         /\ UNCHANGED <<gt, gtExc, consumersReady>>
    ELSE LET exc == IF Dead(gt) THEN gtExc ELSE "QueueConsumerStopped" IN
         /\ gt' = IF Dead(gt) THEN gt ELSE "killed"
         /\ gtExc' = exc
         /\ consumersReady' = "stopped"
         /\ Return(c, WaitOutcome(exc))

\* QueueConsumer.unregister_provider, up to removed_event.wait()
UnregisterProvider(c, p) ==
    /\ callerPc[c] = "idle"
    /\ IF consumersReady = "unset"
       THEN /\ UnregisterBeforeReady(c)
            /\ UNCHANGED <<pendingRemove, removedSent, callerArg>>
       ELSE /\ pendingRemove' = [pendingRemove EXCEPT ![p] = c]
            /\ removedSent' = removedSent \ {c}
            /\ callerArg' = [callerArg EXCEPT ![c] = p]
            /\ Block(c, "removed_wait")
            /\ UNCHANGED <<gt, gtExc, consumersReady>>
    /\ UNCHANGED <<providers, consumers, pendingMessages, pendingAck,
                   pendingRequeue, starting, shouldStop, spawnCount,
                   delivered, msgProv, handler, acked, requeued, calls>>
    /\ UNCHANGED <<svcVars, codecVars>>

\* SharedDependency.unregister_provider: removes the provider from the
\* active set; is this the removal that empties the set?
LastProviderLeaves(p) == p \in providers /\ providers \ {p} = {}

\* an unregister_provider that does not wait for the removal event
UnregisterRemoved_NoWait(c) ==
    /\ callerPc[c] = "removed_wait"
    /\ removedSent' = removedSent \ {c}
    /\ providers' = providers \ {callerArg[c]}
    /\ callerArg' = [callerArg EXCEPT ![c] = NoProvider]
    /\ IF LastProviderLeaves(callerArg[c])
       THEN IF Dead(gt)
            THEN Return(c, WaitOutcome(gtExc))
            ELSE Block(c, "gt_wait")
       ELSE Return(c, "returned")
    /\ UNCHANGED <<consumers, pendingMessages, pendingAck, pendingRequeue,
                   pendingRemove, starting, consumersReady, shouldStop, gt,
                   gtExc, spawnCount, delivered, msgProv, handler, acked,
                   requeued, calls>>
    /\ UNCHANGED <<svcVars, codecVars>>

\* QueueConsumer.unregister_provider, resumed from removed_event.wait():
\* super().unregister_provider, which calls last_provider_unregistered when
\* the active set becomes empty; that waits for the greenlet to finish.
UnregisterRemoved(c) ==
    /\ callerPc[c] = "removed_wait"
    /\ c \in removedSent
    /\ removedSent' = removedSent \ {c}
    /\ providers' = providers \ {callerArg[c]}
    /\ callerArg' = [callerArg EXCEPT ![c] = NoProvider]
    /\ IF LastProviderLeaves(callerArg[c])
       THEN IF Dead(gt)
            THEN Return(c, WaitOutcome(gtExc))
            ELSE Block(c, "gt_wait")
       ELSE Return(c, "returned")
    /\ UNCHANGED <<consumers, pendingMessages, pendingAck, pendingRequeue,
                   pendingRemove, starting, consumersReady, shouldStop, gt,
                   gtExc, spawnCount, delivered, msgProv, handler, acked,
                   requeued, calls>>
    /\ UNCHANGED <<svcVars, codecVars>>

\* QueueConsumer.last_provider_unregistered, resumed from self._gt.wait()
UnregisterGtDead(c) ==
    /\ callerPc[c] = "gt_wait"
    /\ Dead(gt)
    /\ Return(c, WaitOutcome(gtExc))
    /\ UNCHANGED <<providers, consumers, pendingMessages, pendingAck,
                   pendingRequeue, pendingRemove, removedSent, starting,
                   consumersReady, shouldStop, gt, gtExc, spawnCount,
                   callerArg, delivered, msgProv, handler, acked, requeued,
                   calls>>
    /\ UNCHANGED <<svcVars, codecVars>>

\* ================================================================ Service
\* Service.__init__
SvcInit ==
    /\ svcGt = "none"
    /\ svcConsumers = FALSE
    /\ svcCancelled = FALSE
    /\ svcPending = <<>>
    /\ svcStopAfterAck = FALSE
    /\ svcShouldStop = FALSE
    /\ svcDelivered = 0
    /\ svcHandler = [m \in SvcMsgs |-> "none"]
    /\ svcKind = [m \in SvcMsgs |-> "none"]
    /\ svcAcked = [m \in SvcMsgs |-> 0]
    /\ svcKillPc = "idle"

\* a pool whose slot stays taken until the worker's message has been acked
SvcRunning_UntilAcked ==
    {m \in SvcMsgs : \/ svcHandler[m] = "running"
                     \/ svcHandler[m] \in {"ok", "failed"} /\ svcAcked[m] = 0}

\* workers of the procpool that have not finished
SvcRunning == {m \in SvcMsgs : svcHandler[m] = "running"}

\* messages delivered through consumer k and not acked yet (what the
\* prefetch_count of get_consumers, procpool.size, limits)
SvcUnacked(k) ==
    {m \in SvcMsgs : m <= svcDelivered /\ svcKind[m] = k /\ svcAcked[m] = 0}

\* the message whose dispatch waits in procpool.spawn for a free slot
SvcWaiting == {m \in SvcMsgs : svcHandler[m] = "waiting"}

\* Service.ack_pending_messages: pops one message, acks it and yields in
\* eventlet.sleep(); with the list empty, turns a stop-after-ack request
\* into should_stop, and the loop goes on to drain_events.
SvcAckPending(c0) ==
    IF svcPending # <<>>
    THEN /\ svcPending' = ButLast(svcPending)
         /\ svcAcked' = [svcAcked EXCEPT ![Last(svcPending)] = @ + 1]
         /\ calls' = c0 \cup {<<"ack", "poll">>}
         /\ svcGt' = "ack_sleep"
         /\ UNCHANGED svcShouldStop
    ELSE /\ svcShouldStop' = (svcShouldStop \/ svcStopAfterAck)
         /\ svcGt' = "drain"
         /\ calls' = c0
         /\ UNCHANGED <<svcPending, svcAcked>>

\* one turn of ConsumerMixin.consume for the service: `if self.should_stop:
\* break`, then Service.on_iteration
SvcIteration(c0) ==
    IF svcShouldStop
    THEN /\ svcGt' = "exited"
         /\ calls' = c0
         /\ UNCHANGED <<svcPending, svcAcked, svcShouldStop>>
    ELSE SvcAckPending(c0)

\* Service.start: refuses (RuntimeError) while the greenlet is alive
SvcStart ==
    /\ svcGt = "none" \/ Dead(svcGt)
    /\ svcGt' = "spawned"
    /\ UNCHANGED <<svcConsumers, svcCancelled, svcPending, svcStopAfterAck,
                   svcShouldStop, svcDelivered, svcHandler, svcKind,
                   svcAcked, svcKillPc, calls>>
    /\ UNCHANGED <<qcVars, codecVars>>

\* the service greenlet: run() leaves at once when should_stop is set;
\* otherwise Service.get_consumers subscribes, on_consume_ready records the
\* consumers and the first turn of the loop follows
SvcPollReady ==
    /\ svcGt = "spawned"
    /\ IF svcShouldStop
       THEN /\ svcGt' = "exited"
            /\ UNCHANGED <<svcConsumers, svcCancelled, svcPending, svcAcked,
                           svcShouldStop, calls>>
       ELSE /\ svcConsumers' = TRUE
            /\ svcCancelled' = FALSE
            /\ SvcIteration(calls \cup {<<"subscribe", "poll">>})
    /\ UNCHANGED <<svcStopAfterAck, svcDelivered, svcHandler, svcKind,
                   svcKillPc>>
    /\ UNCHANGED <<qcVars, codecVars>>

\* the service greenlet resumes from eventlet.sleep() in the ack loop
SvcPollAfterAckSleep ==
    /\ svcGt = "ack_sleep"
    /\ SvcAckPending(calls)
    /\ UNCHANGED <<svcConsumers, svcCancelled, svcStopAfterAck, svcDelivered,
                   svcHandler, svcKind, svcKillPc>>
    /\ UNCHANGED <<qcVars, codecVars>>

\* drain_events times out: next turn of the loop
SvcPollDrainTimeout ==
    /\ svcGt = "drain"
    /\ SvcIteration(calls)
    /\ UNCHANGED <<svcConsumers, svcCancelled, svcStopAfterAck, svcDelivered,
                   svcHandler, svcKind, svcKillPc>>
    /\ UNCHANGED <<qcVars, codecVars>>

\* a spawn that does not wait for a slot: the worker is started at once
SvcSpawn_NoSlotWait(m, c0) ==
    /\ svcHandler' = [svcHandler EXCEPT ![m] = "running"]
    /\ SvcIteration(c0)

\* procpool.spawn (eventlet GreenPool) called by the message callback in
\* the service greenlet: with a free slot the worker is started and the
\* callback returns, so that the next turn of the loop follows; with every
\* slot taken the service greenlet itself waits in spawn.
SvcSpawn(m, c0) ==
    IF Cardinality(SvcRunning) < PoolSize
    THEN /\ svcHandler' = [svcHandler EXCEPT ![m] = "running"]
         /\ SvcIteration(c0)
    ELSE /\ svcHandler' = [svcHandler EXCEPT ![m] = "waiting"]
         /\ svcGt' = "spawn_wait"
         /\ calls' = c0
         /\ UNCHANGED <<svcPending, svcAcked, svcShouldStop>>

\* drain_events delivers a message of consumer k: Service.on_nova_message
\* spawns handle_request, Service.on_consume_message spawns process_message
SvcPollDrainMessage(k) ==
    /\ svcGt = "drain"
    /\ ~svcCancelled
    /\ svcDelivered < MaxSvcMsgs
    /\ Cardinality(SvcUnacked(k)) < PoolSize
    /\ svcDelivered' = svcDelivered + 1
    /\ svcKind' = [svcKind EXCEPT ![svcDelivered + 1] = k]
    /\ SvcSpawn(svcDelivered + 1, calls)
    /\ UNCHANGED <<svcConsumers, svcCancelled, svcStopAfterAck, svcKillPc>>
    /\ UNCHANGED <<qcVars, codecVars>>

\* the service greenlet resumes in procpool.spawn once a slot is free:
\* the worker is started, the callback returns, next turn of the loop
SvcPollAfterSpawnWait ==
    /\ svcGt = "spawn_wait"
    /\ Cardinality(SvcRunning) < PoolSize
    /\ \E m \in SvcWaiting :
        svcHandler' = [svcHandler EXCEPT ![m] = "running"]
    /\ SvcIteration(calls)
    /\ UNCHANGED <<svcConsumers, svcCancelled, svcStopAfterAck, svcDelivered,
                   svcKind, svcKillPc>>
    /\ UNCHANGED <<qcVars, codecVars>>

\* Service.handle_request: whatever process_rpc_message does, the finally
\* clause queues the message for ack
SvcHandleRequest(m, failed) ==
    /\ svcHandler[m] = "running"
    /\ svcKind[m] = "rpc"
    /\ svcHandler' = [svcHandler EXCEPT ![m] = IF failed THEN "failed" ELSE "ok"]
    /\ svcPending' = Append(svcPending, m)
    /\ UNCHANGED <<svcGt, svcConsumers, svcCancelled, svcStopAfterAck,
                   svcShouldStop, svcDelivered, svcKind, svcAcked, svcKillPc,
                   calls>>
    /\ UNCHANGED <<qcVars, codecVars>>

\* process_message(consumer_config, consumer_method, body, message): the
\* worker of a declared consume-subscription; it is handed the message and
\* nothing of the service, and leaves the message dispositioned
SvcProcessMessage(m, failed) ==
    /\ svcHandler[m] = "running"
    /\ svcKind[m] = "consume"
    /\ svcHandler' = [svcHandler EXCEPT ![m] = IF failed THEN "failed" ELSE "ok"]
    /\ svcAcked' = [svcAcked EXCEPT ![m] = 1]
    /\ UNCHANGED <<svcGt, svcConsumers, svcCancelled, svcPending,
                   svcStopAfterAck, svcShouldStop, svcDelivered, svcKind,
                   svcKillPc, calls>>
    /\ UNCHANGED <<qcVars, codecVars>>

\* Service.kill from `if self.greenlet is not None ...` to its end, as far
\* as it gets without blocking
SvcKillStop ==
    IF svcGt # "none" /\ ~Dead(svcGt)
    THEN /\ svcStopAfterAck' = TRUE
         /\ svcKillPc' = "gt_wait"
    ELSE /\ svcKillPc' = "done"
         /\ UNCHANGED svcStopAfterAck

\* Service.kill: cancels the consumers in the caller's greenlet, then
\* procpool.waitall()
SvcKill ==
    /\ svcKillPc = "idle"
    /\ IF svcConsumers
       THEN /\ calls' = calls \cup {<<"cancel", "caller">>}
            /\ svcCancelled' = TRUE
       ELSE UNCHANGED <<calls, svcCancelled>>
    /\ IF SvcRunning = {}
       THEN SvcKillStop
       ELSE svcKillPc' = "waitall" /\ UNCHANGED svcStopAfterAck
    /\ UNCHANGED <<svcGt, svcConsumers, svcPending, svcShouldStop,
                   svcDelivered, svcHandler, svcKind, svcAcked>>
    /\ UNCHANGED <<qcVars, codecVars>>

\* Service.kill resumed from procpool.waitall()
SvcKillAfterWaitall ==
    /\ svcKillPc = "waitall"
    /\ SvcRunning = {}
    /\ SvcKillStop
    /\ UNCHANGED <<svcGt, svcConsumers, svcCancelled, svcPending,
                   svcShouldStop, svcDelivered, svcHandler, svcKind, svcAcked,
                   calls>>
    /\ UNCHANGED <<qcVars, codecVars>>

\* Service.kill resumed from self.greenlet.wait(); closes the channel
SvcKillAfterGtWait ==
    /\ svcKillPc = "gt_wait"
    /\ Dead(svcGt)
    /\ svcKillPc' = "done"
    /\ UNCHANGED <<svcGt, svcConsumers, svcCancelled, svcPending,
                   svcStopAfterAck, svcShouldStop, svcDelivered, svcHandler,
                   svcKind, svcAcked, calls>>
    /\ UNCHANGED <<qcVars, codecVars>>


\* ------------------------------------------------------- context headers
NoHeaders == [name \in {} |-> 0]

\* no message is being published
CodecIdle ==
    /\ ctxData = NoHeaders
    /\ encKeys = {}
    /\ decKeys = {}
    /\ msgHeaders = NoHeaders
    /\ decoded = NoHeaders
    /\ codecPc = "idle"

\* "{}.{}".format(self.header_prefix, key)
HeaderName(key) == HEADER_PREFIX \o <<".">> \o key

\* HeaderEncoder.get_message_headers: the loop over worker_ctx.data_keys,
\* with the headers built so far
RECURSIVE EncodeKeys(_, _, _)
EncodeKeys(keys, data, headers) ==
    IF keys = {}
    THEN headers
    ELSE LET key == CHOOSE k \in keys : TRUE
         IN  EncodeKeys(keys \ {key}, data,
                        IF key \in DOMAIN data
                        THEN (HeaderName(key) :> data[key]) @@ headers
                        ELSE headers)

get_message_headers(data, data_keys) == EncodeKeys(data_keys, data, NoHeaders)

\* a decoder that takes every header of the message for context data
DecodeKeys_AnyHeader(keys, headers, data) ==
    [key \in {k \in ContextKeys : HeaderName(k) \in DOMAIN headers} |->
        headers[HeaderName(key)]]

\* HeaderDecoder.unpack_message_headers: the loop over data_keys, with the
\* data collected so far
RECURSIVE DecodeKeys(_, _, _)
DecodeKeys(keys, headers, data) ==
    IF keys = {}
    THEN data
    ELSE LET key == CHOOSE k \in keys : TRUE
         IN  DecodeKeys(keys \ {key}, headers,
                        IF HeaderName(key) \in DOMAIN headers
                        THEN (key :> headers[HeaderName(key)]) @@ data
                        ELSE data)

unpack_message_headers(data_keys, headers) ==
    DecodeKeys(data_keys, headers, NoHeaders)

\* a worker with some context data is about to publish a message that a
\* container with some recognised keys will consume
CodecInit ==
    /\ \E keys \in SUBSET ContextKeys : ctxData \in [keys -> ContextValues]
    /\ encKeys \in SUBSET ContextKeys
    /\ decKeys \in SUBSET ContextKeys
    /\ msgHeaders = NoHeaders
    /\ decoded = NoHeaders
    /\ codecPc = "publish"

\* the publisher sets the headers of the message
Publish ==
    /\ codecPc = "publish"
    /\ msgHeaders' = get_message_headers(ctxData, encKeys)
    /\ codecPc' = "sent"
    /\ UNCHANGED <<ctxData, encKeys, decKeys, decoded>>
    /\ UNCHANGED <<qcVars, svcVars, calls>>

\* the consuming container unpacks the headers of the message
Unpack ==
    /\ codecPc = "sent"
    /\ decoded' = unpack_message_headers(decKeys, msgHeaders)
    /\ codecPc' = "unpacked"
    /\ UNCHANGED <<ctxData, encKeys, decKeys, msgHeaders>>
    /\ UNCHANGED <<qcVars, svcVars, calls>>


\* --------------------------------------------------------- specification
Init == QCInit /\ SvcInit /\ CodecIdle /\ calls = {}

Next ==
    \/ \E p \in Providers : RegisterProvider(p)
    \/ \E c \in Callers : Start(c)
    \/ \E c \in Callers : StartReturn(c)
    \/ \E c \in Callers, exc \in KillReasons : Kill(c, exc)
    \/ \E c \in Callers, p \in Providers : UnregisterProvider(c, p)
    \/ \E c \in Callers : UnregisterRemoved(c)
    \/ \E c \in Callers : UnregisterGtDead(c)
    \/ PollGetConsumers
    \/ PollConnectError
    \/ PollConsumeReady
    \/ PollAfterAckSleep
    \/ PollAfterRequeueSleep
    \/ PollDrainTimeout
    \/ \E p \in Providers : PollDrainMessage(p, MaxMsgs)
    \/ PollDrainError
    \/ \E m \in Msgs, failed \in BOOLEAN : WorkerDone(m, failed)

Spec == Init /\ [][Next]_vars

\* The same engine driven by a single API caller, with a longer run of
\* messages.
SoloNext ==
    \/ \E p \in Providers : RegisterProvider(p)
    \/ Start(1)
    \/ StartReturn(1)
    \/ \E exc \in KillReasons : Kill(1, exc)
    \/ \E p \in Providers : UnregisterProvider(1, p)
    \/ UnregisterRemoved(1)
    \/ UnregisterGtDead(1)
    \/ PollGetConsumers
    \/ PollConnectError
    \/ PollConsumeReady
    \/ PollAfterAckSleep
    \/ PollAfterRequeueSleep
    \/ PollDrainTimeout
    \/ \E p \in Providers : PollDrainMessage(p, MaxSoloMsgs)
    \/ PollDrainError
    \/ \E m \in Msgs, failed \in BOOLEAN : WorkerDone(m, failed)

SoloSpec == Init /\ [][SoloNext]_vars

SvcNext ==
    \/ SvcStart
    \/ SvcPollReady
    \/ SvcPollAfterAckSleep
    \/ SvcPollDrainTimeout
    \/ \E k \in SvcKinds : SvcPollDrainMessage(k)
    \/ SvcPollAfterSpawnWait
    \/ \E m \in SvcMsgs, failed \in BOOLEAN : SvcHandleRequest(m, failed)
    \/ \E m \in SvcMsgs, failed \in BOOLEAN : SvcProcessMessage(m, failed)
    \/ SvcKill
    \/ SvcKillAfterWaitall
    \/ SvcKillAfterGtWait

SvcSpec == Init /\ [][SvcNext]_vars

\* one message published with context headers and unpacked by its consumer
CodecNext ==
    \/ Publish
    \/ Unpack

CodecStart == QCInit /\ SvcInit /\ CodecInit /\ calls = {}

CodecSpec == CodecStart /\ [][CodecNext]_vars

\* The service under the scheduling eventlet gives: a greenlet that can run
\* is run, and a handler that was started returns or raises.
SvcPollStep ==
    \/ SvcPollReady
    \/ SvcPollAfterAckSleep
    \/ SvcPollDrainTimeout
    \/ SvcPollAfterSpawnWait

SvcWorkerStep ==
    \/ \E m \in SvcMsgs, failed \in BOOLEAN : SvcHandleRequest(m, failed)
    \/ \E m \in SvcMsgs, failed \in BOOLEAN : SvcProcessMessage(m, failed)

FairSvcSpec == SvcSpec /\ WF_vars(SvcPollStep) /\ WF_vars(SvcWorkerStep)

\* The service when only the service greenlet is sure to run: handlers may
\* stay suspended for ever.
SvcPollFairSpec == SvcSpec /\ WF_vars(SvcPollStep)

\* ================================================================= claims
Range(s) == {s[i] : i \in 1..Len(s)}
Dispositions(m) == acked[m] + requeued[m]
Received == {m \in Msgs : m <= delivered}

\* C1: every dispatched message gets exactly one of ack / requeue, exactly
\* once and not before its handler has completed; in a run without kill()
\* or fatal broker error it does get it.  Once the poll loop has left by
\* itself nothing can be issued any more, so by then every received message
\* must have its disposition.
C1_ExactlyOneDisposition ==
    \A m \in Received :
        /\ Dispositions(m) <= 1
        /\ Dispositions(m) = 1 => handler[m] \in {"ok", "failed"}
        /\ gt = "exited" => Dispositions(m) = 1

\* C2: every broker ack, requeue, subscribe and cancel is issued from the
\* poll loop's own execution context, by the QueueConsumer and by Service.
C2_SingleOwner == \A call \in calls : call[2] = "poll"

\* C3: after the last provider is unregistered with messages in flight, the
\* poll loop leaves only when each of them has been acked or requeued at
\* the broker: none is left in the in-flight set or in a pending list, and
\* none is dispositioned twice.
C3_GracefulShutdownComplete ==
    (gt = "exited" /\ delivered > 0) =>
        /\ pendingMessages = {}
        /\ pendingAck = <<>>
        /\ pendingRequeue = <<>>
        /\ \A m \in Received : acked[m] + requeued[m] = 1

\* C4: when the poll task is stopped (by unregister_provider or by kill)
\* after start() spawned it and before the ready event was sent, the ready
\* event is resolved with QueueConsumerStopped, which releases every caller
\* blocked in start().
C4_StoppedBeforeReady ==
    (gt = "killed" /\ consumersReady # "ok") => consumersReady = "stopped"

\* C5: a caller of unregister_provider never waits on a removal event that
\* no live poll loop will signal.
C5_UnregisterReturns ==
    \A c \in Callers :
        callerPc[c] = "removed_wait" => (c \in removedSent \/ ~Dead(gt))

\* C6: a message is requeued iff its handler failed and its provider has
\* requeue_on_error, and acked otherwise, never both; with three messages on
\* the requeue_on_error provider of which only the second fails, once the
\* pending lists are drained messages 1 and 3 are acked, message 2 is
\* requeued, and there are 3 dispositions in all.
RequeueCase(m) == handler[m] = "failed" /\ RequeueOnError[msgProv[m]]

ScenarioA ==
    /\ delivered >= 3
    /\ \A m \in 1..3 : msgProv[m] = "p1"
    /\ handler[1] = "ok" /\ handler[2] = "failed" /\ handler[3] = "ok"
    /\ pendingAck = <<>> /\ pendingRequeue = <<>>

C6_DispositionByOutcome ==
    /\ \A m \in Msgs :
        /\ Dispositions(m) <= 1
        /\ requeued[m] = 1 => RequeueCase(m)
        /\ acked[m] = 1 => (handler[m] \in {"ok", "failed"} /\ ~RequeueCase(m))
    /\ ScenarioA =>
        /\ acked[1] = 1 /\ requeued[1] = 0
        /\ acked[2] = 0 /\ requeued[2] = 1
        /\ acked[3] = 1 /\ requeued[3] = 0
        /\ acked[1] + acked[2] + acked[3]
             + requeued[1] + requeued[2] + requeued[3] = 3

C6_Witness == ScenarioA /\ requeued[2] = 1 /\ acked[3] = 1 /\ acked[1] = 1

\* C7: the poll task is spawned at most once, however many times and from
\* however many callers start() is called; a start() that finds the engine
\* starting or ready spawns nothing, and no start() returns before the
\* ready event is resolved.
C7_SpawnedOnce ==
    /\ spawnCount <= 1
    /\ spawnCount = 1 <=> starting
    /\ lastOut \in {"started", "stopped"} => consumersReady # "unset"

C7_Witness ==
    /\ \A c \in Callers : callerPc[c] = "start_wait"
    /\ spawnCount = 1
    /\ consumersReady = "unset"

\* C8: kill() raises no error to its caller in any engine state, the idle
\* state with no poll task included, and leaves no poll task running.
C8_KillTotal ==
    lastOut # "AttributeError"

\* C9: when the poll loop leaves without having been killed, no message is
\* in flight and no provider is active, a provider registered after the
\* engine became ready included.  (Active: registered, with no removal
\* requested or applied.)
BeingRemoved ==
    RemoveRequested \cup
        {callerArg[c] : c \in {d \in Callers : callerPc[d] = "removed_wait"}}

ActiveProviders == providers \ BeingRemoved

C9_StoppedMeansIdle ==
    [][(gt # "exited" /\ gt' = "exited") =>
           (pendingMessages' = {} /\ ActiveProviders' = {})]_vars

\* C10: a received message that is not dispositioned at the broker is in
\* exactly one of the in-flight set, the pending-ack list and the
\* pending-requeue list, and at most once in a list.
NoDuplicates(s) == \A i, j \in 1..Len(s) : s[i] = s[j] => i = j

Places(m) ==
    (IF m \in pendingMessages THEN 1 ELSE 0)
    + (IF m \in Range(pendingAck) THEN 1 ELSE 0)
    + (IF m \in Range(pendingRequeue) THEN 1 ELSE 0)

C10_ExactlyOnePlace ==
    /\ NoDuplicates(pendingAck)
    /\ NoDuplicates(pendingRequeue)
    /\ \A m \in Received : Dispositions(m) = 0 => Places(m) = 1
    /\ \A m \in Msgs : (m \notin Received \/ Dispositions(m) > 0) => Places(m) = 0

C10_Witness ==
    /\ pendingMessages # {}
    /\ pendingAck # <<>>
    /\ pendingRequeue # <<>>

\* C11: when a broker connection error ends the poll task before the ready
\* event was sent, the ready event is resolved, so that every caller blocked
\* in start() is released with a failure; and a poll task ended by such an
\* error is not started again.
C11_StartSeesFailure ==
    (gt = "failed" /\ gtExc = "socket.error") =>
        /\ consumersReady # "unset"
        /\ spawnCount = 1

SvcDispatchBlocked == svcGt = "spawn_wait" /\ SvcWaiting # {}

Restrict(f, keys) == [k \in (DOMAIN f) \cap keys |-> f[k]]

C14_HeaderRoundTrip ==
    /\ codecPc \in {"sent", "unpacked"} =>
        /\ DOMAIN msgHeaders =
             {HeaderName(k) : k \in encKeys \cap DOMAIN ctxData}
        /\ \A k \in encKeys \cap DOMAIN ctxData :
             msgHeaders[HeaderName(k)] = ctxData[k]
    /\ codecPc = "unpacked" =>
        /\ DOMAIN decoded \subseteq decKeys
        /\ decoded = Restrict(ctxData, encKeys \cap decKeys)
        /\ encKeys = decKeys => decoded = Restrict(ctxData, encKeys)

\* a message with a header of a key its consumer does not recognise, and
\* with one that it does
C14_Witness ==
    /\ codecPc = "unpacked"
    /\ \E k \in ContextKeys \ decKeys : HeaderName(k) \in DOMAIN msgHeaders
    /\ \E k \in decKeys : HeaderName(k) \in DOMAIN msgHeaders
    /\ DOMAIN decoded # {}

\* C15: with the engine ready, a removal request changes neither the
\* subscription table nor the registry and issues no broker call; a
\* subscription leaves the table only in a step of the poll loop that
\* enters an iteration, for a requested provider and with a cancel issued
\* by the loop; the removal event of a caller is signalled only in a step
\* that has taken the caller's provider out of the table; and a caller
\* leaves its wait, removing the provider from the registry, only after its
\* event was signalled.
C15_Requests ==
    \A c \in Callers :
        (callerPc[c] = "idle" /\ callerPc'[c] = "removed_wait") =>
            /\ consumersReady # "unset"
            /\ consumers' = consumers
            /\ providers' = providers
            /\ calls' = calls
            /\ c \notin removedSent'

C15_Applied ==
    /\ consumers' \subseteq consumers /\ consumers' # consumers =>
        /\ gt \in {"subscribed", "drain"}
        /\ consumers \ consumers' \subseteq RemoveRequested
        /\ <<"cancel", "poll">> \in calls'
        /\ providers' = providers
    /\ \A c \in Callers :
        (c \notin removedSent /\ c \in removedSent') =>
            /\ callerPc[c] = "removed_wait"
            /\ callerArg[c] \in consumers
            /\ callerArg[c] \notin consumers'

C15_Returns ==
    /\ \A c \in Callers :
        (callerPc[c] = "removed_wait" /\ callerPc'[c] # "removed_wait") =>
            /\ c \in removedSent
            /\ callerArg[c] \notin consumers
            /\ providers' = providers \ {callerArg[c]}
    /\ providers' \subseteq providers /\ providers' # providers =>
        \E c \in Callers :
            callerPc[c] = "removed_wait" /\ callerPc'[c] # "removed_wait"

C15_RemovalAppliedByLoop ==
    [][C15_Requests /\ C15_Applied /\ C15_Returns]_vars

\* a caller whose removal event was signalled, before it resumes, while
\* another provider is still subscribed
C15_Witness ==
    \E c \in Callers :
        /\ callerPc[c] = "removed_wait"
        /\ c \in removedSent
        /\ callerArg[c] \in providers
        /\ callerArg[c] \notin consumers
        /\ consumers # {}

\* C16: once kill() has killed the poll task, the task stays killed and is
\* not spawned again, no ack, requeue or cancel is issued and the
\* subscription table is left alone; every message that is in flight or in
\* a pending list has no disposition and keeps none; and a handler that
\* completes afterwards finds its message in the in-flight set and moves
\* it to a pending list, where it stays.
C16_KilledStep ==
    /\ gt' = "killed"
    /\ spawnCount' = spawnCount
    /\ acked' = acked
    /\ requeued' = requeued
    /\ calls' = calls
    /\ consumers' = consumers
    /\ Range(pendingAck) \subseteq Range(pendingAck')
    /\ Range(pendingRequeue) \subseteq Range(pendingRequeue')
    /\ \A m \in Msgs :
        (handler[m] = "running" /\ handler'[m] # "running") =>
            /\ m \in pendingMessages
            /\ m \notin pendingMessages'
            /\ m \in Range(pendingAck') \cup Range(pendingRequeue')

C16_KilledState ==
    \A m \in Msgs :
        /\ handler[m] = "running" => m \in pendingMessages
        /\ Places(m) > 0 => Dispositions(m) = 0

C16_NothingAfterKill ==
    /\ [](gt = "killed" => C16_KilledState)
    /\ [][gt = "killed" => C16_KilledStep]_vars

\* a ready engine was killed; two handlers have completed and their
\* messages sit in the pending lists, without a disposition
C16_Witness ==
    /\ gt = "killed"
    /\ consumersReady = "ok"
    /\ pendingMessages = {}
    /\ Len(pendingAck) + Len(pendingRequeue) >= 2
    /\ \A m \in Received : Dispositions(m) = 0

\* C17: a step in which the blocking broker wait times out does not end the
\* poll loop and changes nothing by itself; the run goes on into the next
\* iteration, which processes the pending removals and the pending
\* dispositions: the in-flight set is unchanged, every requested provider
\* is taken out of the subscription table and nothing else is, the last
\* entry of a non-empty pending list is issued at the broker and nothing
\* else leaves the lists, and should_stop is set only by the stop decision
\* of that iteration.
C17_IsTimeoutStep ==
    /\ gt = "drain"
    /\ gt' # "killed"
    /\ ~(gt' = "failed" /\ gtExc' = "socket.error")
    /\ delivered' = delivered
    /\ handler' = handler
    /\ providers' = providers
    /\ callerPc' = callerPc
    /\ lastOut' = lastOut

C17_NextIteration ==
    /\ gt' \in {"ack_sleep", "requeue_sleep", "drain", "exited"}
    /\ pendingMessages' = pendingMessages
    /\ consumers' = consumers \ RemoveRequested
    /\ pendingRemove' = [p \in Providers |-> NoCaller]
    /\ IF pendingAck # <<>>
       THEN /\ pendingAck' = ButLast(pendingAck)
            /\ acked' = [acked EXCEPT ![Last(pendingAck)] = @ + 1]
            /\ UNCHANGED <<pendingRequeue, requeued>>
       ELSE IF pendingRequeue # <<>>
       THEN /\ pendingRequeue' = ButLast(pendingRequeue)
            /\ requeued' = [requeued EXCEPT ![Last(pendingRequeue)] = @ + 1]
            /\ UNCHANGED <<pendingAck, acked>>
       ELSE UNCHANGED <<pendingAck, acked, pendingRequeue, requeued>>
    /\ shouldStop' # shouldStop =>
        /\ consumers' = {}
        /\ pendingMessages = {}
        /\ pendingAck = <<>>
        /\ pendingRequeue = <<>>

C17_TimeoutSwallowed == [][C17_IsTimeoutStep => C17_NextIteration]_vars

\* the same for the timeouts after which _cancel_consumers_if_requested does
\* not raise KeyError
TimeoutSwallowedUnlessKeyError ==
    [][(C17_IsTimeoutStep /\ gtExc' # "KeyError") => C17_NextIteration]_vars

\* C18: in Service, an RPC message is queued for ack once, after its handler
\* has returned or raised, and is acked at most once; when Service.kill()
\* has returned every worker has finished and every message handed to
\* handle_request has been acked; and when the loop has left, the list of
\* messages queued for ack is empty.
SvcRpc == {m \in SvcMsgs : svcKind[m] = "rpc"}

C18_QueuedOnceAfterHandler ==
    \A m \in SvcRpc :
        /\ Cardinality({i \in 1..Len(svcPending) : svcPending[i] = m}) <= 1
        /\ m \in Range(svcPending) =>
            svcHandler[m] \in {"ok", "failed"} /\ svcAcked[m] = 0
        /\ svcAcked[m] <= 1
        /\ svcAcked[m] = 1 => svcHandler[m] \in {"ok", "failed"}

C18_KillReturns ==
    (svcKillPc # "done" /\ svcKillPc' = "done") =>
        /\ SvcRunning' = {}
        /\ SvcWaiting' = {}
        /\ svcPending' = <<>>
        /\ \A m \in SvcRpc : svcAcked'[m] = 1

C18_LoopExits ==
    (svcGt # "exited" /\ svcGt' = "exited") =>
        /\ svcPending' = <<>>
        /\ \A m \in SvcRpc : svcAcked'[m] = 1

C18_KillDrains ==
    /\ []C18_QueuedOnceAfterHandler
    /\ [][C18_KillReturns /\ C18_LoopExits]_vars

\* C19: in the step in which on_iteration sets should_stop, the pending-ack
\* list and the pending-requeue list are both empty, whatever handlers
\* completed during the yields of _process_pending_message_acks.
C19_StopOnlyWhenDrained ==
    [][(~shouldStop /\ shouldStop') =>
        (pendingAck' = <<>> /\ pendingRequeue' = <<>>)]_vars

\* C20: a removal request for a provider without an entry in the
\* subscription table does not end the poll loop (the loop never dies of a
\* KeyError), and no caller is left waiting for a removal event that
\* nobody will send: a waiting caller either has its event signalled or
\* still has its request pending for a loop that is alive.
C20_UnknownRemovalHarmless ==
    /\ gtExc # "KeyError"
    /\ \A c \in Callers :
        callerPc[c] = "removed_wait" =>
            \/ c \in removedSent
            \/ pendingRemove[callerArg[c]] = c /\ ~Dead(gt)

====
